---- MODULE Spec2Model ----
(***************************************************************************)
(* Model of moonlight_generator.py: derivation of Moonlight app            *)
(* identifiers (CRC-32 of name and image digest), filename sanitising,     *)
(* clearing of the output directory and the run of main.                   *)
(*                                                                         *)
(* Strings are sequences of Unicode code points, byte strings sequences of *)
(* bytes.  TLC's integers are 32-bit signed, so a Python integer that may  *)
(* reach 2^32 - 1 is kept as two base-65536 limbs <<hi, lo>> (value        *)
(* hi * 65536 + lo) and a signed Python integer as [neg, mag].             *)
(***************************************************************************)
EXTENDS Integers, Sequences, FiniteSets, TLC

\* ------------------------------------------------------------------ bounds

\* largest list position passed to calculate_app_id in the derivation spec
MaxIndex == 2
\* longest input string of the sanitize_filename spec
MaxLen == 3
\* longest app list of the run of main
MaxApps == 2

\* ------------------------------------------------- integers and bit strings

\* a ^ b on naturals, bit by bit
RECURSIVE XorBits(_, _)
XorBits(a, b) ==
    IF a = 0 THEN b
    ELSE IF b = 0 THEN a
    ELSE (((a % 2) + (b % 2)) % 2) + 2 * XorBits(a \div 2, b \div 2)

\* a ^ b for bytes a and b at [a + 1][b + 1]; the concatenations make the
\* table a tuple of tuples, which TLC computes once
xor_table ==
    <<>> \o [a \in 1..256 |-> <<>> \o [b \in 1..256 |-> XorBits(a - 1, b - 1)]]

\* Python's a ^ b on naturals below 65536, byte by byte
Xor(a, b) ==
    256 * xor_table[(a \div 256) + 1][(b \div 256) + 1]
        + xor_table[(a % 256) + 1][(b % 256) + 1]

\* a ^ b on two-limb naturals
Xor32(x, y) == <<Xor(x[1], y[1]), Xor(x[2], y[2])>>

\* x >> 1 and x >> 8 on two-limb naturals
Shr1(x) == <<x[1] \div 2, (x[2] \div 2) + (x[1] % 2) * 32768>>
Shr8(x) == <<x[1] \div 256, (x[2] \div 256) + (x[1] % 256) * 256>>

\* x & 0xffffffff on a two-limb natural
Mask32(x) == <<x[1] % 65536, x[2] % 65536>>

\* a < b on two-limb naturals
Less(a, b) == a[1] < b[1] \/ (a[1] = b[1] /\ a[2] < b[2])

\* a - b for a >= b on two-limb naturals
SubNat(a, b) ==
    IF a[2] >= b[2] THEN <<a[1] - b[1], a[2] - b[2]>>
    ELSE <<a[1] - b[1] - 1, a[2] + 65536 - b[2]>>

\* Python's a - b on integers: the result is signed
PySub(a, b) ==
    IF Less(a, b) THEN [neg |-> TRUE, mag |-> SubNat(b, a)]
    ELSE [neg |-> FALSE, mag |-> SubNat(a, b)]

\* Python's abs(i)
PyAbs(i) == [neg |-> FALSE, mag |-> i.mag]

\* decimal digits of a two-limb natural, most significant first
RECURSIVE Digits(_)
Digits(n) ==
    LET r == n[1] % 10
        t == r * 65536 + n[2]
        q == <<n[1] \div 10, t \div 10>>
        d == 48 + (t % 10)
    IN  IF q = <<0, 0>> THEN <<d>> ELSE Append(Digits(q), d)

\* Python's str(i) of an integer
PyStr(i) == IF i.neg THEN <<45>> \o Digits(i.mag) ELSE Digits(i.mag)

\* Python's str(index) of a small natural
StrNat(n) == Digits(<<0, n>>)

\* ---------------------------------------------------------------- CRC-32

\* one entry of zlib's CRC-32 table: eight shift steps over the reflected
\* polynomial 0xEDB88320
RECURSIVE CrcBits(_, _)
CrcBits(c, k) ==
    IF k = 0 THEN c
    ELSE CrcBits(IF c[2] % 2 = 1 THEN Xor32(Shr1(c), <<60856, 33568>>) ELSE Shr1(c), k - 1)

\* the table, entry b at position b + 1; the concatenation makes it a tuple,
\* which TLC computes once
crc_table == <<>> \o [b \in 1..256 |-> CrcBits(<<0, b - 1>>, 8)]

\* one step of the byte loop: crc = table[(crc ^ byte) & 0xff] ^ (crc >> 8)
CrcByte(crc, byte) == Xor32(crc_table[Xor(crc[2] % 256, byte) + 1], Shr8(crc))

\* the running checksum after bytes i..j, the range halved.  The left half
\* is bound as a value before the right half starts: TLC passes operator
\* arguments unevaluated and would otherwise nest the evaluation of every
\* byte inside that of the next.
RECURSIVE CrcUpdate(_, _, _, _)
CrcUpdate(crc, bytes, i, j) ==
    IF i > j THEN crc
    ELSE IF i = j THEN CrcByte(crc, bytes[i])
    ELSE LET mid == (i + j) \div 2
         IN  CHOOSE right \in {CrcUpdate(left, bytes, mid + 1, j) :
                                  left \in {CrcUpdate(crc, bytes, i, mid)}} : TRUE

\* zlib.crc32(bytes)
zlib_crc32(bytes) ==
    Xor32(CrcUpdate(<<65535, 65535>>, bytes, 1, Len(bytes)), <<65535, 65535>>)

\* the UTF-8 bytes of one code point below 0x800
Utf8Char(c) == IF c < 128 THEN <<c>> ELSE <<192 + (c \div 64), 128 + (c % 64)>>

\* str.encode('utf-8') of s[i..j]
RECURSIVE Utf8Range(_, _, _)
Utf8Range(s, i, j) ==
    IF i > j THEN <<>>
    ELSE IF i = j THEN Utf8Char(s[i])
    ELSE LET mid == (i + j) \div 2
         IN  Utf8Range(s, i, mid) \o Utf8Range(s, mid + 1, j)

Utf8(s) == Utf8Range(s, 1, Len(s))

calculate_crc32(data) == Mask32(zlib_crc32(Utf8(data)))

\* ------------------------------------------------------- sanitize_filename

\* the characters of the class [<>:"/\\|?*]
InvalidChars == {60, 62, 58, 34, 47, 92, 124, 63, 42}

\* re.sub(r'[<>:"/\\|?*]', '_', filename)
ReSub(filename) ==
    [k \in 1..Len(filename) |-> IF filename[k] \in InvalidChars THEN 95 ELSE filename[k]]

\* a faulty rstrip that removes trailing dots only
RECURSIVE RStripDots(_)
RStripDots(s) ==
    IF s = <<>> THEN s
    ELSE IF s[Len(s)] = 46 THEN RStripDots(SubSeq(s, 1, Len(s) - 1))
    ELSE s

\* str.rstrip('. ')
RECURSIVE RStrip(_)
RStrip(s) ==
    IF s = <<>> THEN s
    ELSE IF s[Len(s)] \in {46, 32} THEN RStrip(SubSeq(s, 1, Len(s) - 1))
    ELSE s

sanitize_filename(filename) == RStrip(ReSub(filename))

\* ------------------------------------------------------ image file system

\* DEFAULT_APP_IMAGE_PATH = "default_image.png"
DEFAULT_APP_IMAGE_PATH ==
    <<100, 101, 102, 97, 117, 108, 116, 95, 105, 109, 97, 103, 101, 46, 112, 110, 103>>

\* "a.png", "b.png"
PathA == <<97, 46, 112, 110, 103>>
PathB == <<98, 46, 112, 110, 103>>

\* the contents image files of the model have: b"" and b"a"
Contents == {<<>>, <<97>>}

\* what open(path, 'rb') and f.read() can do on an existing entry: succeed,
\* find the entry removed since os.path.exists, be denied, or meet a directory
ReadOutcomes == {"ok", "FileNotFoundError", "PermissionError", "IsADirectoryError"}

Missing == [exists |-> FALSE, read |-> "FileNotFoundError", data |-> <<>>]
RegularFile(data) == [exists |-> TRUE, read |-> "ok", data |-> data]
Unreadable(outcome) == [exists |-> TRUE, read |-> outcome, data |-> <<>>]

\* os.path.exists(path)
os_path_exists(fs, path) == path \in DOMAIN fs /\ fs[path].exists

\* hashlib.sha256(data).hexdigest() on the contents of the model
sha256_hexdigest(data) ==
    IF data = <<>>
    THEN <<101, 51, 98, 48, 99, 52, 52, 50, 57, 56, 102, 99, 49, 99, 49, 52,
           57, 97, 102, 98, 102, 52, 99, 56, 57, 57, 54, 102, 98, 57, 50, 52,
           50, 55, 97, 101, 52, 49, 101, 52, 54, 52, 57, 98, 57, 51, 52, 99,
           97, 52, 57, 53, 57, 57, 49, 98, 55, 56, 53, 50, 98, 56, 53, 53>>
    ELSE <<99, 97, 57, 55, 56, 49, 49, 50, 99, 97, 49, 98, 98, 100, 99, 97,
           102, 97, 99, 50, 51, 49, 98, 51, 57, 97, 50, 51, 100, 99, 52, 100,
           97, 55, 56, 54, 101, 102, 102, 56, 49, 52, 55, 99, 52, 101, 55, 50,
           98, 57, 56, 48, 55, 55, 56, 53, 97, 102, 101, 101, 52, 56, 98, 98>>

\* calculate_sha256: the digest, None on FileNotFoundError and PermissionError;
\* any other exception of open or read leaves the function
calculate_sha256(fs, file_path) ==
    LET outcome == IF file_path \in DOMAIN fs THEN fs[file_path].read
                   ELSE "FileNotFoundError"
    IN  IF outcome = "ok"
        THEN [raised |-> "none", none |-> FALSE,
              value |-> sha256_hexdigest(fs[file_path].data)]
        ELSE IF outcome \in {"FileNotFoundError", "PermissionError"}
        THEN [raised |-> "none", none |-> TRUE, value |-> <<>>]
        ELSE [raised |-> outcome, none |-> TRUE, value |-> <<>>]

\* validate_app_image_path; an absent image path (None or '') is <<>>
validate_app_image_path(fs, image_path) ==
    IF image_path = <<>> \/ ~os_path_exists(fs, image_path)
    THEN DEFAULT_APP_IMAGE_PATH
    ELSE image_path

\* ------------------------------------------------------- calculate_app_id

\* a faulty identifier that omits abs
signed_id_without_abs(crc) == PyStr(PySub(Xor32(crc, <<32768, 0>>), <<32768, 0>>))

\* str(abs((crc ^ 0x80000000) - 0x80000000))
signed_abs_id(crc) == PyStr(PyAbs(PySub(Xor32(crc, <<32768, 0>>), <<32768, 0>>)))

\* the list to_hash joined: the name, then the digest or the path of the image
input_no_index(fs, app_name, app_image_path) ==
    LET file_path == validate_app_image_path(fs, app_image_path)
        file_hash == calculate_sha256(fs, file_path)
    IN  IF file_path # DEFAULT_APP_IMAGE_PATH
        THEN IF ~file_hash.none /\ file_hash.value # <<>>
             THEN app_name \o file_hash.value
             ELSE app_name \o file_path
        ELSE app_name

input_with_index(fs, app_name, app_image_path, index) ==
    input_no_index(fs, app_name, app_image_path) \o StrNat(index)

\* a faulty calculate_app_id whose first identifier hashes the index too
calculate_app_id_indexed(fs, app_name, app_image_path, index) ==
    LET file_path == validate_app_image_path(fs, app_image_path)
        raised == IF file_path # DEFAULT_APP_IMAGE_PATH
                  THEN calculate_sha256(fs, file_path).raised
                  ELSE "none"
        indexed == signed_abs_id(calculate_crc32(
                       input_with_index(fs, app_name, app_image_path, index)))
    IN  IF raised # "none"
        THEN [status |-> "raised", exc |-> raised, ids |-> <<>>]
        ELSE [status |-> "returned", exc |-> "none", ids |-> <<indexed, indexed>>]

\* calculate_app_id: the pair of identifiers, or the exception that leaves it
calculate_app_id(fs, app_name, app_image_path, index) ==
    LET file_path == validate_app_image_path(fs, app_image_path)
        raised == IF file_path # DEFAULT_APP_IMAGE_PATH
                  THEN calculate_sha256(fs, file_path).raised
                  ELSE "none"
    IN  IF raised # "none"
        THEN [status |-> "raised", exc |-> raised, ids |-> <<>>]
        ELSE [status |-> "returned", exc |-> "none",
              ids |-> << signed_abs_id(calculate_crc32(
                             input_no_index(fs, app_name, app_image_path))),
                         signed_abs_id(calculate_crc32(
                             input_with_index(fs, app_name, app_image_path, index))) >>]

\* ---------------------------------------------------- the output directory

\* ".moonlight" and "Moonlight.uuid"
MoonlightSuffix == <<46, 109, 111, 111, 110, 108, 105, 103, 104, 116>>
UuidFileName == <<77, 111, 111, 110, 108, 105, 103, 104, 116, 46, 117, 117, 105, 100>>

\* str.endswith(suffix)
EndsWith(s, suffix) ==
    /\ Len(s) >= Len(suffix)
    /\ SubSeq(s, Len(s) - Len(suffix) + 1, Len(s)) = suffix

\* a faulty test that finds '.moonlight' anywhere in the name
name_contains_suffix(filename) ==
    \/ \E k \in 1..Len(filename) :
           /\ k + Len(MoonlightSuffix) - 1 <= Len(filename)
           /\ SubSeq(filename, k, k + Len(MoonlightSuffix) - 1) = MoonlightSuffix
    \/ filename = UuidFileName

\* filename.endswith('.moonlight') or filename == 'Moonlight.uuid'
is_generated_name(filename) ==
    EndsWith(filename, MoonlightSuffix) \/ filename = UuidFileName

\* a directory: whether it exists and the data of each of its entries
NoFiles == [n \in {} |-> <<>>]
RemoveEntry(files, f) == [n \in DOMAIN files \ {f} |-> files[n]]
PutEntry(files, f, data) ==
    [n \in DOMAIN files \cup {f} |-> IF n = f THEN data ELSE files[n]]

\* the loop of clear_output_folder over os.listdir's order from position k;
\* os.remove raises on the entries of failing, which ends the loop in the
\* except clause
RECURSIVE ClearLoop(_, _, _, _, _)
ClearLoop(files, order, k, failing, deleted_count) ==
    IF k > Len(order)
    THEN [files |-> files, deleted_count |-> deleted_count, error |-> FALSE]
    ELSE IF ~is_generated_name(order[k])
    THEN ClearLoop(files, order, k + 1, failing, deleted_count)
    ELSE IF order[k] \in failing
    THEN [files |-> files, deleted_count |-> deleted_count, error |-> TRUE]
    ELSE ClearLoop(RemoveEntry(files, order[k]), order, k + 1, failing,
                   deleted_count + 1)

\* clear_output_folder: listing is what os.listdir does ([ok, order])
clear_output_folder(dir, listing, failing) ==
    IF ~dir.exists
    THEN [files |-> dir.files, deleted_count |-> 0, error |-> FALSE]
    ELSE IF ~listing.ok
    THEN [files |-> dir.files, deleted_count |-> 0, error |-> TRUE]
    ELSE ClearLoop(dir.files, listing.order, 1, failing, 0)

\* what open(path, 'w') followed by f.write can do: write the data, fail
\* before the file is opened, or fail after open has truncated it
WriteOutcomes == {"ok", "open_failed", "write_failed"}

\* with open(path, 'w') as f: f.write(data)
write_file(files, name, data, outcome) ==
    IF outcome = "ok" THEN PutEntry(files, name, data)
    ELSE IF outcome = "write_failed" THEN PutEntry(files, name, <<>>)
    ELSE files

\* create_uuid_file: the directory after it and what it returned
create_uuid_file(files, host_uuid, outcome) ==
    [files |-> write_file(files, UuidFileName, host_uuid, outcome),
     created |-> outcome = "ok"]

\* Python's truth value of the host UUID (None and '' are false)
Truthy(v) == ~v.none /\ v.value # <<>>

NoneValue == [none |-> TRUE, value |-> <<>>]
StrValue(s) == [none |-> FALSE, value |-> s]

\* a faulty head of create_moonlight_files that clears after writing the UUID
create_head_clear_last(dir, clear_folder, host_uuid, env) ==
    IF env.mkdir # "ok"
    THEN [raised |-> env.mkdir, dir |-> dir, clear_error |-> FALSE, uuid |-> "none"]
    ELSE LET made == [exists |-> TRUE, files |-> dir.files]
             written == IF Truthy(host_uuid)
                        THEN create_uuid_file(made.files, host_uuid.value, env.uuid_write)
                        ELSE [files |-> made.files, created |-> FALSE]
             cleared == IF clear_folder
                        THEN clear_output_folder(
                                 [exists |-> TRUE, files |-> written.files],
                                 env.listing, env.failing)
                        ELSE [files |-> written.files, deleted_count |-> 0,
                              error |-> FALSE]
         IN  [raised |-> "none",
              dir |-> [exists |-> TRUE, files |-> cleared.files],
              clear_error |-> cleared.error,
              uuid |-> IF ~Truthy(host_uuid) THEN "skipped"
                       ELSE IF written.created THEN "created" ELSE "error"]

\* create_moonlight_files up to its loop: mkdir, the clearing when asked for,
\* then the UUID file when there is a UUID
create_head(dir, clear_folder, host_uuid, env) ==
    IF env.mkdir # "ok"
    THEN [raised |-> env.mkdir, dir |-> dir, clear_error |-> FALSE, uuid |-> "none"]
    ELSE LET made == [exists |-> TRUE, files |-> dir.files]
             cleared == IF clear_folder
                        THEN clear_output_folder(made, env.listing, env.failing)
                        ELSE [files |-> made.files, deleted_count |-> 0,
                              error |-> FALSE]
             written == IF Truthy(host_uuid)
                        THEN create_uuid_file(cleared.files, host_uuid.value,
                                              env.uuid_write)
                        ELSE [files |-> cleared.files, created |-> FALSE]
         IN  [raised |-> "none",
              dir |-> [exists |-> TRUE, files |-> written.files],
              clear_error |-> cleared.error,
              uuid |-> IF ~Truthy(host_uuid) THEN "skipped"
                       ELSE IF written.created THEN "created" ELSE "error"]

\* app.get('name', f'App_{index}'); "App_" is <<65, 112, 112, 95>>
app_name_of(app, index) ==
    IF app.has_name THEN app.name ELSE <<65, 112, 112, 95>> \o StrNat(index)

\* a faulty choice that takes the other identifier
select_other_app_id(ids, use_index) == IF use_index THEN ids[1] ELSE ids[2]

\* app_id = id_with_index if use_index else id_no_index
select_app_id(ids, use_index) == IF use_index THEN ids[2] ELSE ids[1]

\* f"{safe_filename}.moonlight"
moonlight_file(app_name) == sanitize_filename(app_name) \o MoonlightSuffix

\* load_sunshine_uuid: root.uniqueid of a valid file, None otherwise
load_sunshine_uuid(file) ==
    IF file.kind = "valid" /\ file.has_uniqueid THEN StrValue(file.uniqueid)
    ELSE NoneValue

\* load_apps_json: the apps of a valid file, [] otherwise
load_apps_json(file) == IF file.kind = "valid" THEN file.apps ELSE <<>>

\* ------------------------------------------------------------- the state

VARIABLES
    images,         \* the image files on disk: path -> [exists, read, data]
    call,           \* a function applied on its own, and its arguments
    result,         \* what that call returned or raised
    pc,             \* where the run of main is
    config,         \* settings.ini: [use_index, clear_folder]
    sunshine_state, \* sunshine_state.json: [kind, has_uniqueid, uniqueid]
    apps_json,      \* apps.json: [kind, apps]
    outdir,         \* the output directory: [exists, files]
    host_uuid,      \* main's host_uuid
    apps,           \* main's apps
    index,          \* the position of the loop of create_moonlight_files
    created_files,  \* its counter
    uuid_status,    \* what happened to Moonlight.uuid: none, skipped, created, error
    app_log,        \* one line per app processed: [index, file, app_id, created]
    exception       \* the exception that ended the run, "none" otherwise

pvars == <<images, call, result>>
mvars == <<pc, config, sunshine_state, apps_json, outdir, host_uuid, apps, index,
           created_files, uuid_status, app_log, exception>>
vars == <<images, call, result, pc, config, sunshine_state, apps_json, outdir,
          host_uuid, apps, index, created_files, uuid_status, app_log, exception>>

\* ------------------------------------------------ the functions on their own

\* "", "A", "bXRGNE" (CRC-32 0x80000000) and "Cé"
Names == {<<>>, <<65>>, <<98, 88, 82, 71, 78, 69>>, <<67, 233>>}

ImagePaths == {DEFAULT_APP_IMAGE_PATH, PathA, PathB}

FileStates ==
    {Missing} \cup {RegularFile(d) : d \in Contents}
              \cup {Unreadable(o) : o \in ReadOutcomes \ {"ok"}}

\* the disks of the calls: the sentinel path is missing or a regular file
\* b"a", b.png is missing or a regular file, a.png is in any state
ImageDisks ==
    {fs \in [ImagePaths -> FileStates] :
        /\ fs[DEFAULT_APP_IMAGE_PATH] \in {Missing, RegularFile(<<97>>)}
        /\ fs[PathB] \in {Missing} \cup {RegularFile(d) : d \in Contents}}

NoImages == [p \in ImagePaths |-> Missing]

\* checksums around 0, 2^31 and 2^32
ChecksumSamples ==
    {<<hi, lo>> : hi \in {0, 1, 2, 16384, 32766, 32767, 32768, 32769, 49152, 65534, 65535},
                  lo \in {0, 1, 32767, 32768, 65534, 65535}}

\* the characters of the filenames sanitized: the invalid ones, '.', ' ',
\* '_' and 'a'
FilenameChars == InvalidChars \cup {46, 32, 95, 97}

Filenames == UNION {[1..n -> FilenameChars] : n \in 0..MaxLen}

\* "old.moonlight", "notes.txt" and "x.moonlight.bak"
OldMoonlight == <<111, 108, 100, 46, 109, 111, 111, 110, 108, 105, 103, 104, 116>>
NotesTxt == <<110, 111, 116, 101, 115, 46, 116, 120, 116>>
MoonlightBak == <<120, 46, 109, 111, 111, 110, 108, 105, 103, 104, 116, 46, 98, 97, 107>>

\* the directories cleared: none, or any of four entries holding b"1"
ClearedEntries == {OldMoonlight, UuidFileName, NotesTxt, MoonlightBak}
ClearedDirs ==
    {[exists |-> FALSE, files |-> NoFiles]}
        \cup {[exists |-> TRUE, files |-> [n \in E |-> <<49>>]] :
                 E \in SUBSET ClearedEntries}

\* the orders os.listdir can return the entries in
Orders(E) ==
    {o \in [1..Cardinality(E) -> E] : \A a, b \in DOMAIN o : o[a] = o[b] => a = b}

Listings(dir) ==
    {[ok |-> FALSE, order |-> <<>>]}
        \cup {[ok |-> TRUE, order |-> o] : o \in Orders(DOMAIN dir.files)}

Generated(files) == {n \in DOMAIN files : is_generated_name(n)}

Pending == [status |-> "pending"]

MainIdle ==
    /\ pc = "idle"
    /\ config = [use_index |-> FALSE, clear_folder |-> TRUE]
    /\ sunshine_state = [kind |-> "missing", has_uniqueid |-> FALSE, uniqueid |-> <<>>]
    /\ apps_json = [kind |-> "missing", apps |-> <<>>]
    /\ outdir = [exists |-> FALSE, files |-> NoFiles]
    /\ host_uuid = NoneValue
    /\ apps = <<>>
    /\ index = 0
    /\ created_files = 0
    /\ uuid_status = "none"
    /\ app_log = <<>>
    /\ exception = "none"

InitPure ==
    /\ \/ /\ images \in ImageDisks
          /\ call \in [op : {"calculate_app_id"}, name : Names,
                       image_path : {<<>>} \cup ImagePaths, index : 0..MaxIndex]
       \/ /\ images = NoImages
          /\ call \in [op : {"signed_abs_id"}, crc : ChecksumSamples]
       \/ /\ images = NoImages
          /\ call \in [op : {"sanitize_filename"}, name : Filenames]
       \/ /\ images = NoImages
          /\ \E dir \in ClearedDirs :
                call \in [op : {"clear_output_folder"}, dir : {dir},
                          listing : Listings(dir),
                          failing : SUBSET Generated(dir.files)]
    /\ result = Pending
    /\ MainIdle

Derive ==
    /\ call.op = "calculate_app_id"
    /\ result.status = "pending"
    /\ result' = calculate_app_id(images, call.name, call.image_path, call.index)
    /\ UNCHANGED <<images, call>>
    /\ UNCHANGED mvars

Render ==
    /\ call.op = "signed_abs_id"
    /\ result.status = "pending"
    /\ result' = [status |-> "returned", id |-> signed_abs_id(call.crc)]
    /\ UNCHANGED <<images, call>>
    /\ UNCHANGED mvars

Sanitize ==
    /\ call.op = "sanitize_filename"
    /\ result.status = "pending"
    /\ result' = [status |-> "returned", sanitized |-> sanitize_filename(call.name)]
    /\ UNCHANGED <<images, call>>
    /\ UNCHANGED mvars

Clear ==
    /\ call.op = "clear_output_folder"
    /\ result.status = "pending"
    /\ LET r == clear_output_folder(call.dir, call.listing, call.failing)
       IN  result' = [status |-> "returned", files |-> r.files,
                      deleted_count |-> r.deleted_count, error |-> r.error]
    /\ UNCHANGED <<images, call>>
    /\ UNCHANGED mvars

NextPure == Derive \/ Render \/ Sanitize \/ Clear

SpecPure == InitPure /\ [][NextPure]_vars

\* ------------------------------------------------------------ the run of main

\* the apps of apps.json: "A" without image, "A." with the image a.png, and
\* an app without name or image
AppUniverse ==
    {[has_name |-> TRUE, name |-> <<65>>, image_path |-> <<>>],
     [has_name |-> TRUE, name |-> <<65, 46>>, image_path |-> PathA],
     [has_name |-> FALSE, name |-> <<>>, image_path |-> <<>>]}

AppLists == UNION {[1..n -> AppUniverse] : n \in 0..MaxApps}

\* a.png is a regular file, a directory or missing
MainDisks ==
    {[p \in ImagePaths |-> IF p = PathA THEN st ELSE Missing] :
        st \in {RegularFile(<<97>>), Unreadable("IsADirectoryError"), Missing}}

\* "abc-123"
SomeUuid == <<97, 98, 99, 45, 49, 50, 51>>

SunshineFiles ==
    {[kind |-> "missing", has_uniqueid |-> FALSE, uniqueid |-> <<>>],
     [kind |-> "malformed", has_uniqueid |-> FALSE, uniqueid |-> <<>>],
     [kind |-> "valid", has_uniqueid |-> FALSE, uniqueid |-> <<>>],
     [kind |-> "valid", has_uniqueid |-> TRUE, uniqueid |-> <<>>],
     [kind |-> "valid", has_uniqueid |-> TRUE, uniqueid |-> SomeUuid]}

AppsFiles ==
    {[kind |-> "missing", apps |-> <<>>], [kind |-> "malformed", apps |-> <<>>]}
        \cup {[kind |-> "valid", apps |-> l] : l \in AppLists}

\* "A.moonlight"
AMoonlight == <<65>> \o MoonlightSuffix

\* the output directory before the run: absent, or left by an earlier run
\* next to a file of the user's
OutDirs ==
    {[exists |-> FALSE, files |-> NoFiles],
     [exists |-> TRUE,
      files |-> [n \in {NotesTxt, UuidFileName, AMoonlight} |-> <<49>>]]}

Init ==
    /\ images \in MainDisks
    /\ call = [op |-> "main"]
    /\ result = Pending
    /\ pc = "load_uuid"
    /\ config \in [use_index : BOOLEAN, clear_folder : BOOLEAN]
    /\ sunshine_state \in SunshineFiles
    /\ apps_json \in AppsFiles
    /\ outdir \in OutDirs
    /\ host_uuid = NoneValue
    /\ apps = <<>>
    /\ index = 0
    /\ created_files = 0
    /\ uuid_status = "none"
    /\ app_log = <<>>
    /\ exception = "none"

\* host_uuid = load_sunshine_uuid(source_folder)
LoadSunshineUuid ==
    /\ pc = "load_uuid"
    /\ host_uuid' = load_sunshine_uuid(sunshine_state)
    /\ pc' = "load_apps"
    /\ UNCHANGED <<config, sunshine_state, apps_json, outdir, apps, index,
                   created_files, uuid_status, app_log, exception>>
    /\ UNCHANGED pvars

\* apps = load_apps_json(source_folder); main returns when there are none
LoadAppsJson ==
    /\ pc = "load_apps"
    /\ apps' = load_apps_json(apps_json)
    /\ pc' = IF apps' = <<>> THEN "done" ELSE "create"
    /\ UNCHANGED <<config, sunshine_state, apps_json, outdir, host_uuid, index,
                   created_files, uuid_status, app_log, exception>>
    /\ UNCHANGED pvars

\* create_moonlight_files up to its loop
CreateHead ==
    /\ pc = "create"
    /\ \E mk \in {"ok", "OSError"}, listing \in Listings(outdir),
          failing \in SUBSET Generated(outdir.files), w \in WriteOutcomes :
          LET r == create_head(outdir, config.clear_folder, host_uuid,
                               [mkdir |-> mk, listing |-> listing,
                                failing |-> failing, uuid_write |-> w])
          IN  /\ outdir' = r.dir
              /\ uuid_status' = r.uuid
              /\ exception' = r.raised
              /\ pc' = IF r.raised = "none" THEN "loop" ELSE "crashed"
    /\ UNCHANGED <<config, sunshine_state, apps_json, host_uuid, apps, index,
                   created_files, app_log>>
    /\ UNCHANGED pvars

\* one iteration of the loop over enumerate(apps)
ProcessApp ==
    /\ pc = "loop"
    /\ index < Len(apps)
    /\ \E app_name \in {app_name_of(apps[index + 1], index)} :
       \E r \in {calculate_app_id(images, app_name, apps[index + 1].image_path, index)} :
          IF r.status = "raised"
          THEN /\ exception' = r.exc
               /\ pc' = "crashed"
               /\ UNCHANGED <<outdir, index, created_files, app_log>>
          ELSE \E app_id \in {select_app_id(r.ids, config.use_index)},
                  file \in {moonlight_file(app_name)}, w \in WriteOutcomes :
                  /\ outdir' = [outdir EXCEPT !.files = write_file(@, file, app_id, w)]
                  /\ created_files' = IF w = "ok" THEN created_files + 1
                                      ELSE created_files
                  /\ app_log' = Append(app_log,
                                   [index |-> index, file |-> file,
                                    app_id |-> app_id, created |-> w = "ok"])
                  /\ index' = index + 1
                  /\ UNCHANGED <<pc, exception>>
    /\ UNCHANGED <<config, sunshine_state, apps_json, host_uuid, apps, uuid_status>>
    /\ UNCHANGED pvars

\* return created_files, and the end of main
ReturnCreated ==
    /\ pc = "loop"
    /\ index = Len(apps)
    /\ result' = [status |-> "returned", created |-> created_files]
    /\ pc' = "done"
    /\ UNCHANGED <<images, call>>
    /\ UNCHANGED <<config, sunshine_state, apps_json, outdir, host_uuid, apps, index,
                   created_files, uuid_status, app_log, exception>>

Next == LoadSunshineUuid \/ LoadAppsJson \/ CreateHead \/ ProcessApp \/ ReturnCreated

Spec == Init /\ [][Next]_vars

\* ------------------------------------------------ claims on the functions

\* the magnitude of a checksum read as a two's-complement signed 32-bit
\* integer: c below 2^31, 2^32 - c from 2^31 on
Magnitude(c) ==
    IF Less(c, <<32768, 0>>) THEN c
    ELSE IF c[2] = 0 THEN <<65536 - c[1], 0>>
    ELSE <<65535 - c[1], 65536 - c[2]>>

\* s <= t for decimal renderings without sign or leading zeros
RECURSIVE DecimalLeq(_, _)
DecimalLeq(s, t) ==
    IF Len(s) # Len(t) THEN Len(s) < Len(t)
    ELSE IF s = <<>> THEN TRUE
    ELSE IF Head(s) # Head(t) THEN Head(s) < Head(t)
    ELSE DecimalLeq(Tail(s), Tail(t))

\* "2147483647"
Int32Max == <<50, 49, 52, 55, 52, 56, 51, 54, 52, 55>>

Derived == call.op = "calculate_app_id" /\ result.status = "returned"

\* C1: every identifier calculate_app_id returns is the decimal rendering of
\* the magnitude of the CRC-32 of its hash input read as a signed 32-bit
\* integer, and for every checksum c the expression
\* abs((c ^ 0x80000000) - 0x80000000) is that magnitude.
C1_IdIsSignedMagnitude ==
    /\ Derived =>
        /\ result.ids[1] = Digits(Magnitude(calculate_crc32(
               input_no_index(images, call.name, call.image_path))))
        /\ result.ids[2] = Digits(Magnitude(calculate_crc32(
               input_with_index(images, call.name, call.image_path, call.index))))
    /\ (call.op = "signed_abs_id" /\ result.status = "returned") =>
        result.id = Digits(Magnitude(call.crc))

\* "bXRGNE" has the checksum 0x80000000, the most negative signed value, and
\* the identifier 2147483648
C1_Witness ==
    /\ Derived
    /\ call.name = <<98, 88, 82, 71, 78, 69>>
    /\ call.image_path = <<>>
    /\ result.ids[1] = <<50, 49, 52, 55, 52, 56, 51, 54, 52, 56>>

\* C2: the stable identifier is the same for every index.
C2_StableIdIgnoresIndex ==
    Derived =>
        \A j \in 0..MaxIndex :
            LET other == calculate_app_id(images, call.name, call.image_path, j)
            IN  other.status = "returned" /\ other.ids[1] = result.ids[1]

\* a call at a positive index on a readable image whose two identifiers differ
C2_Witness ==
    /\ Derived
    /\ call.index > 0
    /\ call.image_path = PathA
    /\ images[PathA].read = "ok"
    /\ result.ids[1] # result.ids[2]

Readable(fs, p) == p \in DOMAIN fs /\ fs[p].exists /\ fs[p].read = "ok"

\* C3: two paths to readable files of identical content give the same pair
\* of identifiers.
C3_PathDoesNotMatter ==
    (Derived /\ Readable(images, call.image_path)) =>
        \A p2 \in ImagePaths :
            (Readable(images, p2) /\ images[p2].data = images[call.image_path].data)
                => calculate_app_id(images, call.name, p2, call.index).ids = result.ids

\* C4: a failed read of an existing image never leaves calculate_app_id: the
\* path is hashed in place of the digest and both identifiers are returned.
C4_ReadFailureFallsBack ==
    ( /\ call.op = "calculate_app_id"
      /\ result.status # "pending"
      /\ call.image_path \in {PathA, PathB}
      /\ images[call.image_path].exists
      /\ images[call.image_path].read # "ok" ) =>
        /\ result.status = "returned"
        /\ result.ids[1] = signed_abs_id(calculate_crc32(call.name \o call.image_path))

\* C5: the sanitized name holds no invalid character, ends in neither a dot
\* nor a space, and sanitizing it again changes nothing.
C5_SanitizeIsCleanAndIdempotent ==
    (call.op = "sanitize_filename" /\ result.status = "returned") =>
        LET s == result.sanitized
        IN  /\ \A k \in 1..Len(s) : s[k] \notin InvalidChars
            /\ s = <<>> \/ s[Len(s)] \notin {46, 32}
            /\ sanitize_filename(s) = s

\* "/. " was sanitized to "_": a replacement and a strip of both kinds
C5_Witness ==
    /\ call.op = "sanitize_filename"
    /\ call.name = <<47, 46, 32>>
    /\ result.status = "returned"
    /\ result.sanitized = <<95>>

\* C9: every identifier is at most 2^31 - 1.
C9_IdWithinInt32 ==
    Derived => \A k \in 1..2 : DecimalLeq(result.ids[k], Int32Max)

\* the names the clearing is to remove: those ending in ".moonlight" and
\* "Moonlight.uuid"
ToBeCleared(n) ==
    \/ /\ Len(n) >= 10
       /\ SubSeq(n, Len(n) - 9, Len(n)) = <<46, 109, 111, 111, 110, 108, 105, 103, 104, 116>>
    \/ n = <<77, 111, 111, 110, 108, 105, 103, 104, 116, 46, 117, 117, 105, 100>>

LoopReached == uuid_status # "none"

Created == {k \in 1..Len(app_log) : app_log[k].created}

\* C7: the loop of create_moonlight_files processes every app in input order
\* with its position, whatever writes fail, and returns the number of
\* successful writes.
C7_EveryAppProcessed ==
    (pc \in {"done", "crashed"} /\ LoopReached) =>
        /\ pc = "done"
        /\ Len(app_log) = Len(apps)
        /\ \A k \in 1..Len(app_log) : app_log[k].index = k - 1
        /\ result.created = Cardinality(Created)

ProvidesUuid ==
    /\ sunshine_state.kind = "valid"
    /\ sunshine_state.has_uniqueid
    /\ sunshine_state.uniqueid # <<>>

UuidFileHolds(data) ==
    /\ UuidFileName \in DOMAIN outdir.files
    /\ outdir.files[UuidFileName] = data

\* C8: a run with a valid sunshine_state.json that provides a non-empty
\* uniqueid ends with Moonlight.uuid holding exactly that string.
C8_UuidAlwaysWritten ==
    (pc = "done" /\ ProvidesUuid) => UuidFileHolds(sunshine_state.uniqueid)

\* C8 as amended: when moreover apps.json yields at least one app, the output
\* directory can be made and the write of Moonlight.uuid succeeds, the file
\* holds exactly that string from the end of the UUID step to the end of
\* the run, with and without clearing.
C8_UuidWrittenWhenAppsExist ==
    ( /\ ProvidesUuid
      /\ pc \in {"loop", "done", "crashed"}
      /\ LoopReached
      /\ uuid_status # "error" ) =>
        /\ uuid_status = "created"
        /\ UuidFileHolds(sunshine_state.uniqueid)

\* the end of a run that cleared a directory holding an older Moonlight.uuid
\* and wrote the new one
C8_Witness ==
    /\ pc = "done"
    /\ config.clear_folder
    /\ NotesTxt \in DOMAIN outdir.files
    /\ ProvidesUuid
    /\ uuid_status = "created"
    /\ UuidFileHolds(SomeUuid)
    /\ Len(app_log) = 2

\* the identifier the run is to write for the app at position k
SelectedId(k) ==
    LET ids == calculate_app_id(images, app_name_of(apps[k], k - 1),
                                apps[k].image_path, k - 1).ids
    IN  IF config.use_index THEN ids[2] ELSE ids[1]

FileOf(k) == moonlight_file(app_name_of(apps[k], k - 1))

Returned == pc = "done" /\ LoopReached

\* C10: after create_moonlight_files returns, every app whose write succeeded
\* has a file <sanitized name>.moonlight holding its selected identifier, and
\* the identifier files written are as many as the returned count.
C10_EachAppHasItsFile ==
    Returned =>
        /\ \A k \in Created :
               /\ FileOf(k) \in DOMAIN outdir.files
               /\ outdir.files[FileOf(k)] = SelectedId(k)
        /\ Cardinality({FileOf(k) : k \in Created}) = result.created

\* C10 as amended: every app whose write succeeded and whose file name no
\* later app of the list shares has its file holding its selected
\* identifier; the identifier files written are at most as many as the
\* returned count, and as many when the apps written have distinct file names.
C10_LastWriterOwnsFile ==
    Returned =>
        /\ \A k \in Created :
               (\A j \in (k + 1)..Len(apps) : FileOf(j) # FileOf(k)) =>
                   /\ FileOf(k) \in DOMAIN outdir.files
                   /\ outdir.files[FileOf(k)] = SelectedId(k)
        /\ Cardinality({FileOf(k) : k \in Created}) <= result.created
        /\ (\A j, k \in Created : FileOf(j) = FileOf(k) => j = k) =>
               Cardinality({FileOf(k) : k \in Created}) = result.created

\* "A" and "A." were both written to A.moonlight, which holds the identifier
\* of the second; the count returned is 2
C10_Witness ==
    /\ Returned
    /\ Len(apps) = 2
    /\ apps[1].name = <<65>>
    /\ apps[2].name = <<65, 46>>
    /\ Created = {1, 2}
    /\ result.created = 2
    /\ outdir.files[AMoonlight] = SelectedId(2)
    /\ outdir.files[AMoonlight] # SelectedId(1)
====
